---- MODULE Spec2Model ----
(***************************************************************************)
(* A state-machine model of the two reactive hooks of the voice client    *)
(* React library, and of three of its components:                          *)
(*   - useConnectionManager (src/unnamed/part_000): the connection state   *)
(*     mirrored from the transport, and automatic reconnection with        *)
(*     exponential backoff and jitter;                                     *)
(*   - useConversationState (src/react-sdk/src/hooks/                      *)
(*     useConversationState.ts): the conversation phase, the speaking      *)
(*     flags and the transcript log;                                       *)
(*   - ChatProvider (src/unnamed/part_004), MicControl (src/react-sdk/src/ *)
(*     components/controls/MicControl.tsx) and ConnectionButton.           *)
(* The transport client is external: it is modelled as an environment     *)
(* that changes its state, emits events and settles its promises.         *)
(***************************************************************************)
EXTENDS Integers, Sequences, FiniteSets, TLC

VARIABLES
  \* ---- useConnectionManager ----
  opts,        \* the options the hook was called with (fixed over a run)
  cs,          \* connectionState (useState, part_000:43-50)
  reg,         \* what the registered handleDisconnect closure captured
  mounted,     \* the component using the hook is mounted
  timers,      \* number of pending setTimeout reconnect callbacks
  transport,   \* the transport's own state (useRTVIClientTransportState)
  discEvt,     \* a Disconnected event the transport has still to emit
  calls,       \* the transport promises that are pending
  everConnected, \* history: connectionState.isConnected has been true
  sinceFailure, \* history: a reconnect attempt failed and no Disconnected
               \* event has been handled since
  dropConnected, \* history: the Disconnected event to come is that of a drop
               \* which found the manager connected, with attempts left
  stalePending, \* history: every pending timer was already pending when
               \* the user last called connect() or disconnect()
  \* ---- useConversationState ----
  currentState, isBotSpeaking, isUserSpeaking, isBotProcessing,
  transcripts, lastUserTranscript, lastBotTranscript,
  lastPhaseEvent, \* history: the last phase-changing event processed
  scenario,    \* history: how much of the turn scenario the last events match
  \* ---- ChatProvider, and the initial messages of ChatWindow ----
  messages,    \* the message list (useState, part_004:21)
  now,         \* the clock: what Date.now() returns
  hasInitialized, \* the ref of ChatWindow: the initial messages were loaded
  \* ---- MicControl ----
  submitted,   \* the active state: isActive, else internalSubmitted
  time,        \* the displayed seconds (useState)
  ticks,       \* history: interval ticks since the last activation
  \* ---- ConnectionButton ----
  button,      \* internalConnected and isConnecting (useState)
  pendingCalls, \* the client calls of handleClick not yet settled, in order
  guarded,     \* history: the call of the last click has not settled and
               \* no Connected or Disconnected event has arrived since
  \* ---- all ----
  last         \* the operation, handler or step taken last

connVars == <<opts, cs, reg, mounted, timers, transport, discEvt,
              calls, everConnected, sinceFailure, dropConnected,
              stalePending>>
convVars == <<currentState, isBotSpeaking, isUserSpeaking, isBotProcessing,
              transcripts, lastUserTranscript, lastBotTranscript,
              lastPhaseEvent, scenario>>
micVars == <<submitted, time, ticks>>
buttonVars == <<button, pendingCalls, guarded>>
uiVars == <<messages, now, hasInitialized, micVars, buttonVars>>
vars == <<connVars, convVars, uiVars, last>>

(***************************************************************************)
(* Bounds of the model.                                                    *)
(***************************************************************************)
MaxTimers == 2   \* pending reconnect timers
MaxLog == 2      \* entries in the transcript log

(***************************************************************************)
(* useConnectionManager: options and their defaults.                      *)
(***************************************************************************)
DefaultMaxReconnectAttempts == 5
DefaultReconnectDelay == 1000
DefaultMaxReconnectDelay == 30000
\* reconnectBackoffMultiplier = 1.5, kept exact as the fraction 3/2
MultiplierNum == 3
MultiplierDen == 2

DefaultOptions ==
  [maxReconnectAttempts |-> DefaultMaxReconnectAttempts,
   reconnectDelay |-> DefaultReconnectDelay,
   maxReconnectDelay |-> DefaultMaxReconnectDelay]

\* The option sets a run may be started with: the defaults, and a low delay
\* cap (so that the cap is reached) with a low attempt budget.
LowOptions ==
  [DefaultOptions EXCEPT !.maxReconnectDelay = 2000,
                         !.maxReconnectAttempts = 2]

Options == {DefaultOptions, LowOptions}

TransportStates ==
  {"disconnected", "connecting", "connected", "ready", "disconnecting"}

IsConnectedState(ts) == ts = "connected" \/ ts = "ready"

NoError == "null"
MaxAttemptsError == "Maximum reconnection attempts reached"

\* Errors the transport rejects with or emits: an object with a message,
\* and for the Error event also no object at all.
ErrorObjects == {[present |-> TRUE, message |-> "net down"]}
NullErrorObject == [present |-> FALSE, message |-> ""]

\* error?.message || fallback
MessageOr(error, fallback) ==
  IF error.present /\ error.message # "" THEN error.message ELSE fallback

InitialConnectionState(ts) ==
  [isConnected |-> FALSE, isConnecting |-> FALSE, isReconnecting |-> FALSE,
   reconnectAttempts |-> 0, lastError |-> NoError, transportState |-> ts]

\* The effect on [transportState] leaving isConnecting as it was.
TransportEffectKeepingConnecting(prev, ts) ==
  LET s1 == [prev EXCEPT !.transportState = ts,
                         !.isConnected = IsConnectedState(ts),
                         !.isReconnecting =
                            (prev.isReconnecting /\ ts = "connecting")]
  IN IF IsConnectedState(ts)
       THEN [s1 EXCEPT !.reconnectAttempts = 0, !.isReconnecting = FALSE]
       ELSE s1

\* The effect on [transportState]: two functional updates in a row.
TransportEffect(prev, ts) ==
  LET s1 == [prev EXCEPT !.transportState = ts,
                         !.isConnected = IsConnectedState(ts),
                         !.isConnecting = (ts = "connecting"),
                         !.isReconnecting =
                            (prev.isReconnecting /\ ts = "connecting")]
  IN IF IsConnectedState(ts)
       THEN [s1 EXCEPT !.reconnectAttempts = 0, !.isReconnecting = FALSE]
       ELSE s1

(***************************************************************************)
(* calculateReconnectDelay.  Math.random() is drawn in hundredths, the     *)
(* jitter 0.8 + random * 0.4 is kept in thousandths, and the delay is an   *)
(* exact integer in units of 1 / DelayUnit milliseconds.                   *)
(***************************************************************************)
RECURSIVE Pow(_, _)
Pow(b, e) == IF e = 0 THEN 1 ELSE b * Pow(b, e - 1)

Min(a, b) == IF a <= b THEN a ELSE b

Randoms == {0, 50, 99}
MaxExponent == DefaultMaxReconnectAttempts
DelayUnit == Pow(MultiplierDen, MaxExponent) * 1000

Jitter(random) == 800 + random * 4

\* calculateReconnectDelay without the Math.min against maxReconnectDelay.
calculateReconnectDelayUncapped(o, attempts, random) ==
  o.reconnectDelay * Pow(MultiplierNum, attempts)
    * Pow(MultiplierDen, MaxExponent - attempts) * Jitter(random)

\* calculateReconnectDelay with the exponent counted from zero.
calculateReconnectDelayZeroBased(o, attempts, random) ==
  LET baseDelay == o.reconnectDelay * Pow(MultiplierNum, attempts - 1)
                     * Pow(MultiplierDen, MaxExponent - (attempts - 1))
  IN Min(baseDelay * Jitter(random), o.maxReconnectDelay * DelayUnit)

calculateReconnectDelay(o, attempts, random) ==
  LET baseDelay == o.reconnectDelay * Pow(MultiplierNum, attempts)
                     * Pow(MultiplierDen, MaxExponent - attempts)
  IN Min(baseDelay * Jitter(random), o.maxReconnectDelay * DelayUnit)

\* The arguments of a setTimeout call; NoTimer when a step makes none.
NoTimer == [attempt |-> 0, random |-> 0, delay |-> 0]

\* The input of a step that takes none.
NoInput == [none |-> TRUE]

\* The client.connect() of a reconnect timer rejects in this step.
ReconnectFails(op, arg) ==
  \/ op = "ReconnectTimer" /\ arg = "rejected"
  \/ op \in {"TransportDrop", "TransportDisconnected"} /\ arg = "timer"

\* Every step records its operation, an argument, and its setTimeout call.
\* A step of one hook leaves the state of the other hook alone.
Step(op, arg, timer) ==
  /\ last' = [op |-> op, arg |-> arg, timer |-> timer, input |-> NoInput]
  /\ sinceFailure' = CASE op = "DisconnectedEvent" -> FALSE
                        [] ReconnectFails(op, arg) -> TRUE
                        [] OTHER -> sinceFailure
  /\ dropConnected' =
       CASE op = "TransportDrop" ->
              /\ cs.isConnected /\ reg.isConnected
              /\ cs.reconnectAttempts < opts.maxReconnectAttempts
              /\ reg.reconnectAttempts < opts.maxReconnectAttempts
         [] op = "DisconnectedEvent" -> FALSE
         [] OTHER -> dropConnected
  /\ stalePending' =
       CASE op \in {"connect", "disconnect"} -> timers > 0
         [] op = "DisconnectedEvent" /\ timer # NoTimer -> FALSE
         [] op = "ReconnectTimer" /\ timers = 1 -> FALSE
         [] OTHER -> stalePending
  /\ UNCHANGED <<convVars, uiVars>>

\* The events of one conversation turn, in order.
TurnScenario ==
  <<"UserStartedSpeaking", "UserStoppedSpeaking", "BotLlmStarted",
    "BotLlmStopped", "BotStartedSpeaking", "BotStoppedSpeaking">>

\* The event a handler runs for: the window channel delivers the two bot
\* speaking events as well.
EventOf(op) ==
  CASE op = "WindowBotStartedSpeaking" -> "BotStartedSpeaking"
    [] op = "WindowBotStoppedSpeaking" -> "BotStoppedSpeaking"
    [] OTHER -> op

\* A step of the tracker records its operation and its input.
ConvInput(op, input) ==
  /\ last' = [op |-> op, arg |-> "", timer |-> NoTimer, input |-> input]
  /\ scenario' =
       IF scenario < Len(TurnScenario) /\ EventOf(op) = TurnScenario[scenario + 1]
         THEN scenario + 1
         ELSE IF EventOf(op) = TurnScenario[1] THEN 1 ELSE 0
  /\ UNCHANGED <<connVars, uiVars>>

ConvStep(op) == ConvInput(op, NoInput)

(***************************************************************************)
(* React: a state update of an unmounted component is dropped.             *)
(***************************************************************************)
SetConnectionState(new) == IF mounted THEN new ELSE cs

\* What a render hands to the effect that registers handleDisconnect.
Captured(state) ==
  [isConnected |-> state.isConnected,
   reconnectAttempts |-> state.reconnectAttempts]

Track(newCs) == everConnected' = (everConnected \/ newCs.isConnected)

(***************************************************************************)
(* handleDisconnect, as registered with the values h it captured.          *)
(***************************************************************************)
\* The guard of handleDisconnect without its isConnected test.
ShouldReconnectUnconnected(o, h) ==
  h.reconnectAttempts < o.maxReconnectAttempts

ShouldReconnect(o, h) ==
  h.isConnected /\ h.reconnectAttempts < o.maxReconnectAttempts

\* The else-if of handleDisconnect with > for >=.
AttemptsExhaustedLate(o, h) == h.reconnectAttempts > o.maxReconnectAttempts

AttemptsExhausted(o, h) == h.reconnectAttempts >= o.maxReconnectAttempts

NextAttempt(h) == h.reconnectAttempts + 1

MarkReconnecting(prev, nextAttempt) ==
  [prev EXCEPT !.isReconnecting = TRUE, !.reconnectAttempts = nextAttempt]

MarkExhausted(prev) ==
  [prev EXCEPT !.isReconnecting = FALSE, !.lastError = MaxAttemptsError]

handleDisconnect(cause) ==
  IF ShouldReconnect(opts, reg)
    THEN /\ timers < MaxTimers
         /\ \E random \in Randoms :
              LET nextAttempt == NextAttempt(reg)
                  delay == calculateReconnectDelay(opts, nextAttempt, random)
              IN /\ cs' = SetConnectionState(MarkReconnecting(cs, nextAttempt))
                 /\ timers' = timers + 1
                 /\ Step("DisconnectedEvent", cause,
                         [attempt |-> nextAttempt, random |-> random,
                          delay |-> delay])
    ELSE /\ cs' = IF AttemptsExhausted(opts, reg)
                    THEN SetConnectionState(MarkExhausted(cs))
                    ELSE cs
         /\ UNCHANGED timers
         /\ Step("DisconnectedEvent", cause, NoTimer)

\* handleError
ErrorState(prev, error) ==
  [prev EXCEPT !.lastError = MessageOr(error, "Unknown error")]

(***************************************************************************)
(* connect(), disconnect(), clearError() and the reconnect timer.          *)
(***************************************************************************)
ConnectStarted(prev) ==
  [prev EXCEPT !.isConnecting = TRUE, !.lastError = NoError]

ConnectResolved(prev) ==
  [prev EXCEPT !.isConnecting = FALSE, !.reconnectAttempts = 0]

ConnectRejected(prev, error) ==
  [prev EXCEPT !.isConnecting = FALSE,
               !.lastError = MessageOr(error, "Connection failed")]

\* The success path of disconnect() also resetting reconnectAttempts.
DisconnectResolvedResetting(prev) ==
  [prev EXCEPT !.isConnected = FALSE, !.isConnecting = FALSE,
               !.isReconnecting = FALSE, !.reconnectAttempts = 0]

\* The success path of disconnect() forgetting isReconnecting.
DisconnectResolvedKeepingReconnecting(prev) ==
  [prev EXCEPT !.isConnected = FALSE, !.isConnecting = FALSE]

DisconnectResolved(prev) ==
  [prev EXCEPT !.isConnected = FALSE, !.isConnecting = FALSE,
               !.isReconnecting = FALSE]

\* clearError() clearing the reconnecting flag as well.
ErrorClearedWithFlags(prev) ==
  [prev EXCEPT !.lastError = NoError, !.isReconnecting = FALSE]

ErrorCleared(prev) == [prev EXCEPT !.lastError = NoError]

\* The .catch of the reconnect timer doing nothing.
ReconnectRejectedSilently(prev, error) == prev

ReconnectRejected(prev, error) ==
  [prev EXCEPT !.lastError =
     "Reconnection failed: " \o MessageOr(error, "Unknown error")]

(***************************************************************************)
(* The transport's promises.  client.connect() is accepted only while the  *)
(* transport is disconnected and is rejected at once otherwise; an         *)
(* accepted call stays pending until the transport is ready (it resolves)  *)
(* or the attempt ends (it rejects).  client.disconnect() stays pending    *)
(* until the transport is disconnected.  A promise's continuation runs in  *)
(* the step that settles it.                                               *)
(***************************************************************************)
NoCalls == [connect |-> "none", disconnect |-> FALSE]

\* The catch of whoever awaits the pending client.connect().
PendingConnectRejected(prev, error) ==
  CASE calls.connect = "user" -> ConnectRejected(prev, error)
    [] calls.connect = "timer" -> ReconnectRejected(prev, error)
    [] OTHER -> prev

\* The continuation of whoever awaits the pending client.connect().
PendingConnectResolved(prev) ==
  IF calls.connect = "user" THEN ConnectResolved(prev) ELSE prev

\* The continuation of a pending disconnect().
PendingDisconnectResolved(prev) ==
  IF calls.disconnect THEN DisconnectResolved(prev) ELSE prev

(***************************************************************************)
(* Actions of the connection manager.                                      *)
(***************************************************************************)

\* A render: the hook reads the transport state; the effect on
\* [transportState] runs when that value changed, and handleDisconnect is
\* registered again with the connectionState of this render.
Render ==
  /\ mounted
  /\ transport # cs.transportState \/ reg # Captured(cs)
  /\ cs' = IF transport # cs.transportState
             THEN TransportEffect(cs, transport)
             ELSE cs
  /\ reg' = Captured(cs)
  /\ Track(cs')
  /\ Step("Render", IF transport # cs.transportState THEN transport ELSE "",
          NoTimer)
  /\ UNCHANGED <<opts, mounted, timers, transport, discEvt, calls>>

\* The transport emits Disconnected; handleDisconnect runs while registered.
DisconnectedEvent ==
  /\ discEvt # "none"
  /\ discEvt' = "none"
  /\ IF mounted
       THEN handleDisconnect(discEvt)
       ELSE /\ UNCHANGED <<cs, timers>>
            /\ Step("DisconnectedEvent", discEvt, NoTimer)
  /\ Track(cs')
  /\ UNCHANGED <<opts, reg, mounted, transport, calls>>

\* The transport emits Error; handleError runs while registered.
ErrorEvent ==
  /\ mounted
  /\ \E error \in ErrorObjects \cup {NullErrorObject} :
       cs' = SetConnectionState(ErrorState(cs, error))
  /\ Track(cs')
  /\ Step("ErrorEvent", "", NoTimer)
  /\ UNCHANGED <<opts, reg, mounted, timers, transport, discEvt, calls>>

\* connect(): the state update, then client.connect(), which the transport
\* accepts (the await is pending) or rejects at once (the catch block).
connect ==
  /\ mounted
  /\ IF transport = "disconnected"
       THEN /\ cs' = SetConnectionState(ConnectStarted(cs))
            /\ transport' = "connecting"
            /\ calls' = [calls EXCEPT !.connect = "user"]
            /\ Step("connect", "pending", NoTimer)
       ELSE /\ \E error \in ErrorObjects :
                 cs' = SetConnectionState(
                         ConnectRejected(ConnectStarted(cs), error))
            /\ UNCHANGED <<transport, calls>>
            /\ Step("connect", "rejected", NoTimer)
  /\ Track(cs')
  /\ UNCHANGED <<opts, reg, mounted, timers, discEvt>>

\* disconnect(): client.disconnect(), which resolves at once when the
\* transport is disconnected already and is pending otherwise.
disconnect ==
  /\ mounted
  /\ IF transport = "disconnected"
       THEN /\ cs' = SetConnectionState(DisconnectResolved(cs))
            /\ UNCHANGED <<transport, calls>>
            /\ Step("disconnect", "resolved", NoTimer)
       ELSE /\ transport' = "disconnecting"
            /\ calls' = [calls EXCEPT !.disconnect = TRUE]
            /\ UNCHANGED cs
            /\ Step("disconnect", "pending", NoTimer)
  /\ Track(cs')
  /\ UNCHANGED <<opts, reg, mounted, timers, discEvt>>

\* client.disconnect() rejects: the catch block only logs.
DisconnectRejects ==
  /\ calls.disconnect
  /\ calls' = [calls EXCEPT !.disconnect = FALSE]
  /\ Step("DisconnectRejects", "", NoTimer)
  /\ UNCHANGED <<opts, cs, reg, mounted, timers, transport, discEvt,
                 everConnected>>

clearError ==
  /\ mounted
  /\ cs' = SetConnectionState(ErrorCleared(cs))
  /\ Track(cs')
  /\ Step("clearError", "", NoTimer)
  /\ UNCHANGED <<opts, reg, mounted, timers, transport, discEvt, calls>>

\* A reconnect timer expires: its callback calls client.connect(), which
\* the transport accepts or rejects at once (the .catch callback).
ReconnectTimer ==
  /\ timers > 0
  /\ timers' = timers - 1
  /\ IF transport = "disconnected"
       THEN /\ transport' = "connecting"
            /\ calls' = [calls EXCEPT !.connect = "timer"]
            /\ UNCHANGED cs
            /\ Step("ReconnectTimer", "pending", NoTimer)
       ELSE /\ \E error \in ErrorObjects :
                 cs' = SetConnectionState(ReconnectRejected(cs, error))
            /\ UNCHANGED <<transport, calls>>
            /\ Step("ReconnectTimer", "rejected", NoTimer)
  /\ Track(cs')
  /\ UNCHANGED <<opts, reg, mounted, discEvt>>

\* The effect cleanup on unmount: the two listeners are removed.
Unmount ==
  /\ mounted
  /\ mounted' = FALSE
  /\ Step("Unmount", "", NoTimer)
  /\ UNCHANGED <<opts, cs, reg, timers, transport, discEvt, calls,
                 everConnected>>

(***************************************************************************)
(* The transport (environment): its state changes, and the promises they   *)
(* settle.                                                                 *)
(***************************************************************************)
TransportConnected ==
  /\ transport = "connecting"
  /\ transport' = "connected"
  /\ Step("TransportConnected", "", NoTimer)
  /\ UNCHANGED <<opts, cs, reg, mounted, timers, discEvt, calls,
                 everConnected>>

\* The bot is ready: a pending client.connect() resolves.
TransportReady ==
  /\ transport = "connected"
  /\ transport' = "ready"
  /\ cs' = SetConnectionState(PendingConnectResolved(cs))
  /\ calls' = [calls EXCEPT !.connect = "none"]
  /\ Track(cs')
  /\ Step("TransportReady", calls.connect, NoTimer)
  /\ UNCHANGED <<opts, reg, mounted, timers, discEvt>>

\* The connection drops, or a connection attempt fails, unsolicited: a
\* pending client.connect() rejects.
TransportDrop ==
  /\ transport \in {"connecting", "connected", "ready"}
  /\ discEvt = "none"
  /\ transport' = "disconnected"
  /\ discEvt' = "drop"
  /\ \E error \in ErrorObjects :
       cs' = SetConnectionState(PendingConnectRejected(cs, error))
  /\ calls' = [calls EXCEPT !.connect = "none"]
  /\ Track(cs')
  /\ Step("TransportDrop", calls.connect, NoTimer)
  /\ UNCHANGED <<opts, reg, mounted, timers>>

\* A disconnect asked for by client.disconnect() completes: a pending
\* client.connect() rejects and a pending client.disconnect() resolves.
TransportDisconnected ==
  /\ transport = "disconnecting"
  /\ discEvt = "none"
  /\ transport' = "disconnected"
  /\ discEvt' = "user"
  /\ \E error \in ErrorObjects :
       cs' = SetConnectionState(
               PendingDisconnectResolved(PendingConnectRejected(cs, error)))
  /\ calls' = NoCalls
  /\ Track(cs')
  /\ Step("TransportDisconnected", calls.connect, NoTimer)
  /\ UNCHANGED <<opts, reg, mounted, timers>>

ConnInit ==
  /\ opts \in Options
  /\ transport \in {"disconnected", "ready"}
  \* the mount: the first render and its effects
  /\ cs = TransportEffect(InitialConnectionState(transport), transport)
  /\ reg = Captured(InitialConnectionState(transport))
  /\ mounted = TRUE
  /\ timers = 0
  /\ discEvt = "none"
  /\ calls = NoCalls
  /\ everConnected = cs.isConnected
  /\ sinceFailure = FALSE
  /\ dropConnected = FALSE
  /\ stalePending = FALSE

ConnNext ==
  \/ Render \/ DisconnectedEvent \/ ErrorEvent
  \/ connect \/ disconnect \/ DisconnectRejects
  \/ clearError
  \/ ReconnectTimer
  \/ TransportConnected \/ TransportReady \/ TransportDrop
  \/ TransportDisconnected

(***************************************************************************)
(* useConversationState.                                                   *)
(***************************************************************************)
IDLE == "idle"
USER_SPEAKING == "user_speaking"
BOT_PROCESSING == "bot_processing"
BOT_SPEAKING == "bot_speaking"

NullText == "<null>"

\* Date.now() as read by a transcript handler.
Clock == {0, 1000}

\* The number NaN, which no comparison holds for.
NaN == -1

\* new Date(timestamp).getTime() on the timestamps the server sends; a
\* string that is no date gives NaN.
ParseTimestamp(iso) ==
  CASE iso = "1970-01-01T00:00:00.000Z" -> 0
    [] iso = "1970-01-01T00:00:00.999Z" -> 999
    [] iso = "1970-01-01T00:00:01.001Z" -> 1001
    [] OTHER -> NaN

\* Payloads of the transport's transcript events; an empty text stands for
\* an empty or missing one (data?.text is falsy for both).
UserTranscriptData == [text : {"", "hi"}, final : BOOLEAN]
BotTranscriptData == [text : {"", "ok"}]

\* Out-of-band updates handed to handleTranscriptUpdate.
TranscriptUpdates ==
  {[role |-> "user", content |-> "hi",
    timestamp |-> "1970-01-01T00:00:00.000Z"],
   [role |-> "user", content |-> "hi",
    timestamp |-> "1970-01-01T00:00:00.999Z"],
   [role |-> "user", content |-> "hi",
    timestamp |-> "1970-01-01T00:00:01.001Z"],
   [role |-> "assistant", content |-> "hi",
    timestamp |-> "1970-01-01T00:00:00.000Z"],
   [role |-> "user", content |-> "ok",
    timestamp |-> "1970-01-01T00:00:00.000Z"],
   [role |-> "user", content |-> "",
    timestamp |-> "1970-01-01T00:00:00.000Z"],
   [role |-> "user", content |-> "hi", timestamp |-> "not a date"]}

\* Entries handed to addTranscript.
AddedTranscripts ==
  {[text |-> "", speaker |-> "user", timestamp |-> 0, final |-> FALSE],
   [text |-> "ok", speaker |-> "bot", timestamp |-> 1000, final |-> TRUE]}

Abs(x) == IF x < 0 THEN -x ELSE x

\* The tolerance test with <= for <.
WithinToleranceInclusive(a, b) == a # NaN /\ b # NaN /\ Abs(a - b) <= 1000

\* Math.abs(a - b) < 1000
WithinTolerance(a, b) == a # NaN /\ b # NaN /\ Abs(a - b) < 1000

\* transitionTo refusing user_speaking while the bot is speaking.
transitionToGuarded(newState) ==
  IF currentState = BOT_SPEAKING /\ newState = USER_SPEAKING
    THEN currentState
    ELSE newState

\* transitionTo refusing idle while the bot is speaking.
transitionToSticky(newState) ==
  IF currentState = BOT_SPEAKING /\ newState = IDLE
    THEN currentState
    ELSE newState

\* setCurrentState(newState)
transitionTo(newState) == newState

transcriptVars == <<transcripts, lastUserTranscript, lastBotTranscript>>

\* RTVIEvent.BotStartedSpeaking
BotStartedSpeaking ==
  /\ isBotSpeaking' = TRUE
  /\ currentState' = transitionTo(BOT_SPEAKING)
  /\ lastPhaseEvent' = "bot-started-speaking"
  /\ ConvStep("BotStartedSpeaking")
  /\ UNCHANGED <<isUserSpeaking, isBotProcessing, transcriptVars>>

\* The BotStoppedSpeaking handler clearing the flag only.
BotStoppedSpeakingFlagOnly ==
  /\ isBotSpeaking' = FALSE
  /\ ConvStep("BotStoppedSpeaking")
  /\ UNCHANGED <<currentState, lastPhaseEvent, isUserSpeaking,
                 isBotProcessing, transcriptVars>>

\* RTVIEvent.BotStoppedSpeaking
BotStoppedSpeaking ==
  /\ isBotSpeaking' = FALSE
  /\ currentState' = transitionTo(IDLE)
  /\ lastPhaseEvent' = "bot-stopped-speaking"
  /\ ConvStep("BotStoppedSpeaking")
  /\ UNCHANGED <<isUserSpeaking, isBotProcessing, transcriptVars>>

\* window "bot-started-speaking"
WindowBotStartedSpeaking ==
  /\ isBotSpeaking' = TRUE
  /\ currentState' = transitionTo(BOT_SPEAKING)
  /\ lastPhaseEvent' = "bot-started-speaking"
  /\ ConvStep("WindowBotStartedSpeaking")
  /\ UNCHANGED <<isUserSpeaking, isBotProcessing, transcriptVars>>

\* The window handler of bot-stopped-speaking clearing the flag only.
WindowBotStoppedSpeakingFlagOnly ==
  /\ isBotSpeaking' = FALSE
  /\ ConvStep("WindowBotStoppedSpeaking")
  /\ UNCHANGED <<currentState, lastPhaseEvent, isUserSpeaking,
                 isBotProcessing, transcriptVars>>

\* window "bot-stopped-speaking"
WindowBotStoppedSpeaking ==
  /\ isBotSpeaking' = FALSE
  /\ currentState' = transitionTo(IDLE)
  /\ lastPhaseEvent' = "bot-stopped-speaking"
  /\ ConvStep("WindowBotStoppedSpeaking")
  /\ UNCHANGED <<isUserSpeaking, isBotProcessing, transcriptVars>>

\* RTVIEvent.UserStartedSpeaking
UserStartedSpeaking ==
  /\ isUserSpeaking' = TRUE
  /\ currentState' = transitionTo(USER_SPEAKING)
  /\ lastPhaseEvent' = "user-started-speaking"
  /\ ConvStep("UserStartedSpeaking")
  /\ UNCHANGED <<isBotSpeaking, isBotProcessing, transcriptVars>>

\* The UserStoppedSpeaking handler without setIsBotProcessing(true).
UserStoppedSpeakingPhaseOnly ==
  /\ isUserSpeaking' = FALSE
  /\ currentState' = transitionTo(BOT_PROCESSING)
  /\ lastPhaseEvent' = "user-stopped-speaking"
  /\ ConvStep("UserStoppedSpeaking")
  /\ UNCHANGED <<isBotSpeaking, isBotProcessing, transcriptVars>>

\* RTVIEvent.UserStoppedSpeaking
UserStoppedSpeaking ==
  /\ isUserSpeaking' = FALSE
  /\ currentState' = transitionTo(BOT_PROCESSING)
  /\ isBotProcessing' = TRUE
  /\ lastPhaseEvent' = "user-stopped-speaking"
  /\ ConvStep("UserStoppedSpeaking")
  /\ UNCHANGED <<isBotSpeaking, transcriptVars>>

\* RTVIEvent.BotLlmStarted
BotLlmStarted ==
  /\ isBotProcessing' = TRUE
  /\ ConvStep("BotLlmStarted")
  /\ UNCHANGED <<currentState, isBotSpeaking, isUserSpeaking, lastPhaseEvent,
                 transcriptVars>>

\* The BotLlmStopped handler returning the phase to idle as well.
BotLlmStoppedToIdle ==
  /\ isBotProcessing' = FALSE
  /\ currentState' = transitionTo(IDLE)
  /\ lastPhaseEvent' = "bot-stopped-speaking"
  /\ ConvStep("BotLlmStopped")
  /\ UNCHANGED <<isBotSpeaking, isUserSpeaking, transcriptVars>>

\* RTVIEvent.BotLlmStopped
BotLlmStopped ==
  /\ isBotProcessing' = FALSE
  /\ ConvStep("BotLlmStopped")
  /\ UNCHANGED <<currentState, isBotSpeaking, isUserSpeaking, lastPhaseEvent,
                 transcriptVars>>

phaseVars == <<currentState, isBotSpeaking, isUserSpeaking, isBotProcessing,
               lastPhaseEvent>>

\* The text test accepting every payload.
HasTextAlways(data) == TRUE

\* if (data?.text)
HasText(data) == data.text # ""

\* RTVIEvent.UserTranscript
UserTranscript ==
  /\ \E data \in UserTranscriptData, t \in Clock :
       /\ IF HasText(data) /\ data.final
            THEN /\ Len(transcripts) < MaxLog
                 /\ lastUserTranscript' = data.text
                 /\ transcripts' = Append(transcripts,
                      [text |-> data.text, speaker |-> "user",
                       timestamp |-> t, final |-> data.final])
                 /\ UNCHANGED lastBotTranscript
            ELSE UNCHANGED transcriptVars
       /\ ConvInput("UserTranscript", [data |-> data, now |-> t])
  /\ UNCHANGED phaseVars

\* RTVIEvent.BotTranscript
BotTranscript ==
  /\ \E data \in BotTranscriptData, t \in Clock :
       /\ IF HasText(data)
            THEN /\ Len(transcripts) < MaxLog
                 /\ lastBotTranscript' = data.text
                 /\ transcripts' = Append(transcripts,
                      [text |-> data.text, speaker |-> "bot",
                       timestamp |-> t, final |-> TRUE])
                 /\ UNCHANGED lastUserTranscript
            ELSE UNCHANGED transcriptVars
       /\ ConvInput("BotTranscript", [data |-> data, now |-> t])
  /\ UNCHANGED phaseVars

\* clearTranscripts() emptying the log only.
clearTranscriptsKeepingPointers ==
  /\ transcripts' = <<>>
  /\ ConvStep("clearTranscripts")
  /\ UNCHANGED <<lastUserTranscript, lastBotTranscript, phaseVars>>

clearTranscripts ==
  /\ transcripts' = <<>>
  /\ lastUserTranscript' = NullText
  /\ lastBotTranscript' = NullText
  /\ ConvStep("clearTranscripts")
  /\ UNCHANGED phaseVars

\* addTranscript() putting the entry at the head of the log.
addTranscriptPrepending ==
  /\ Len(transcripts) < MaxLog
  /\ \E transcript \in AddedTranscripts :
       /\ transcripts' = <<transcript>> \o transcripts
       /\ IF transcript.speaker = "user"
            THEN /\ lastUserTranscript' = transcript.text
                 /\ UNCHANGED lastBotTranscript
            ELSE /\ lastBotTranscript' = transcript.text
                 /\ UNCHANGED lastUserTranscript
       /\ ConvInput("addTranscript", transcript)
  /\ UNCHANGED phaseVars

\* addTranscript() ignoring an entry whose text is empty.
addTranscriptCheckingText ==
  /\ Len(transcripts) < MaxLog
  /\ \E transcript \in AddedTranscripts :
       /\ IF transcript.text = ""
            THEN UNCHANGED transcriptVars
            ELSE /\ transcripts' = Append(transcripts, transcript)
                 /\ IF transcript.speaker = "user"
                      THEN /\ lastUserTranscript' = transcript.text
                           /\ UNCHANGED lastBotTranscript
                      ELSE /\ lastBotTranscript' = transcript.text
                           /\ UNCHANGED lastUserTranscript
       /\ ConvInput("addTranscript", transcript)
  /\ UNCHANGED phaseVars

addTranscript ==
  /\ Len(transcripts) < MaxLog
  /\ \E transcript \in AddedTranscripts :
       /\ transcripts' = Append(transcripts, transcript)
       /\ IF transcript.speaker = "user"
            THEN /\ lastUserTranscript' = transcript.text
                 /\ UNCHANGED lastBotTranscript
            ELSE /\ lastBotTranscript' = transcript.text
                 /\ UNCHANGED lastUserTranscript
       /\ ConvInput("addTranscript", transcript)
  /\ UNCHANGED phaseVars

\* The duplicate test of handleTranscriptUpdate.
Exists(prev, content, speaker, timestamp) ==
  \E i \in 1..Len(prev) :
    /\ prev[i].text = content
    /\ prev[i].speaker = speaker
    /\ WithinTolerance(prev[i].timestamp, timestamp)

handleTranscriptUpdate ==
  /\ \E update \in TranscriptUpdates :
       LET timestamp == ParseTimestamp(update.timestamp)
           isAssistant == update.role = "assistant"
           speaker == IF isAssistant THEN "bot" ELSE "user"
           transcript == [text |-> update.content, speaker |-> speaker,
                          timestamp |-> timestamp, final |-> TRUE]
       IN /\ IF isAssistant
               THEN /\ lastBotTranscript' = update.content
                    /\ UNCHANGED lastUserTranscript
               ELSE /\ lastUserTranscript' = update.content
                    /\ UNCHANGED lastBotTranscript
          /\ IF Exists(transcripts, update.content, speaker, timestamp)
               THEN UNCHANGED transcripts
               ELSE /\ Len(transcripts) < MaxLog
                    /\ transcripts' = Append(transcripts, transcript)
          /\ ConvInput("handleTranscriptUpdate", update)
  /\ UNCHANGED phaseVars

ConvInit ==
  /\ currentState = IDLE
  /\ isBotSpeaking = FALSE
  /\ isUserSpeaking = FALSE
  /\ isBotProcessing = FALSE
  /\ transcripts = <<>>
  /\ lastUserTranscript = NullText
  /\ lastBotTranscript = NullText
  /\ lastPhaseEvent = "none"
  /\ scenario = 0

ConvNext ==
  \/ BotStartedSpeaking \/ BotStoppedSpeaking
  \/ WindowBotStartedSpeaking \/ WindowBotStoppedSpeaking
  \/ UserStartedSpeaking \/ UserStoppedSpeaking
  \/ BotLlmStarted \/ BotLlmStopped
  \/ UserTranscript \/ BotTranscript
  \/ clearTranscripts \/ addTranscript \/ handleTranscriptUpdate

(***************************************************************************)
(* The components: ChatProvider (src/unnamed/part_004) with the effect of  *)
(* ChatWindow that loads the initial messages, MicControl and              *)
(* ConnectionButton. A render and the effects it runs are one step.        *)
(***************************************************************************)
MaxMessages == 3  \* messages in the list of ChatProvider
MaxNow == 2       \* milliseconds the clock advances
MaxSeconds == 3   \* ticks of the timer of MicControl
MaxCalls == 2     \* pending client calls of ConnectionButton

\* A step of a component records its operation and its input or the
\* callbacks it invoked; it leaves the two hooks alone.
UiStep(op, input) ==
  /\ last' = [op |-> op, arg |-> "", timer |-> NoTimer, input |-> input]
  /\ UNCHANGED <<connVars, convVars>>

\* ---- ChatProvider ----
MessageTypes == {"user", "bot"}
MessageTexts == {"hi", "ok"}

\* The initialMessages prop of ChatWindow.
InitialMessages ==
  <<[type |-> "bot", text |-> "hi"], [type |-> "user", text |-> "ok"]>>

\* The message addMessage builds when Date.now() is ms.
NewMessage(type, text, ms) ==
  [id |-> ToString(ms), type |-> type, text |-> text, timestamp |-> ms]

\* The list after addMessage was called for every entry of msgs at time ms.
RECURSIVE AddAll(_, _, _)
AddAll(prev, msgs, ms) ==
  IF msgs = <<>> THEN prev
  ELSE AddAll(Append(prev, NewMessage(Head(msgs).type, Head(msgs).text, ms)),
              Tail(msgs), ms)

chatVars == <<messages, now, hasInitialized>>

addMessage ==
  /\ Len(messages) < MaxMessages
  /\ \E type \in MessageTypes, text \in MessageTexts :
       /\ messages' = Append(messages, NewMessage(type, text, now))
       /\ UiStep("addMessage", [type |-> type, text |-> text])
  /\ UNCHANGED <<now, hasInitialized, micVars, buttonVars>>

clearMessages ==
  /\ messages' = <<>>
  /\ UiStep("clearMessages", NoInput)
  /\ UNCHANGED <<now, hasInitialized, micVars, buttonVars>>

\* The effect of ChatWindow: clearMessages, then addMessage for every
\* initial message, within one run of the effect.
LoadInitialMessages ==
  /\ ~hasInitialized
  /\ Len(InitialMessages) > 0
  /\ messages' = AddAll(<<>>, InitialMessages, now)
  /\ hasInitialized' = TRUE
  /\ UiStep("LoadInitialMessages", NoInput)
  /\ UNCHANGED <<now, micVars, buttonVars>>

\* The clock reaches the next millisecond.
ClockAdvances ==
  /\ now < MaxNow
  /\ now' = now + 1
  /\ UiStep("ClockAdvances", NoInput)
  /\ UNCHANGED <<messages, hasInitialized, micVars, buttonVars>>

ChatInit ==
  /\ messages = <<>>
  /\ now = 0
  /\ hasInitialized = FALSE

ChatNext ==
  \/ addMessage
  \/ clearMessages
  \/ LoadInitialMessages
  \/ ClockAdvances

\* ---- MicControl ----
\* The effect on [submitted, time, onStart, onStop]: the callbacks it
\* invokes and the time it leaves.
TimerEffect(sub, t) ==
  [onStart |-> IF sub THEN 1 ELSE 0,
   onStop |-> IF ~sub /\ t > 0 THEN <<t>> ELSE <<>>,
   time |-> IF ~sub /\ t > 0 THEN 0 ELSE t]

Invoked(e) == [onStart |-> e.onStart, onStop |-> e.onStop]

\* A render of MicControl with these values, and its effect.
MicRender(op, sub, t) ==
  /\ submitted' = sub
  /\ time' = TimerEffect(sub, t).time
  /\ UiStep(op, Invoked(TimerEffect(sub, t)))
  /\ UNCHANGED <<chatVars, buttonVars>>

\* The microphone becomes active (the isActive prop, the poll of
\* client.isMicEnabled or a click).
MicActivated ==
  /\ ~submitted
  /\ ticks' = 0
  /\ MicRender("MicActivated", TRUE, time)

\* The microphone becomes inactive.
MicDeactivated ==
  /\ submitted
  /\ ticks' = ticks
  /\ MicRender("MicDeactivated", FALSE, time)

\* The interval callback: setTime(t => t + 1), and the render it causes.
MicTick ==
  /\ submitted
  /\ time < MaxSeconds
  /\ ticks' = ticks + 1
  /\ MicRender("MicTick", submitted, time + 1)

\* The parent renders MicControl with new onStart and onStop functions.
CallbacksChanged ==
  /\ ticks' = ticks
  /\ MicRender("CallbacksChanged", submitted, time)

MicInit ==
  /\ submitted = FALSE
  /\ time = 0
  /\ ticks = 0

MicNext ==
  \/ MicActivated
  \/ MicDeactivated
  \/ MicTick
  \/ CallbacksChanged

\* ---- ConnectionButton ----
\* The state after the synchronous part of handleClick.
ClickStarted(b) == [b EXCEPT !.isConnecting = TRUE]

\* The call handleClick makes.
CallOf(b) == IF ~b.internalConnected THEN "connect" ELSE "disconnect"

Remove(s, i) == SubSeq(s, 1, i - 1) \o SubSeq(s, i + 1, Len(s))

\* The button is disabled while isConnecting.
handleClick ==
  /\ ~button.isConnecting
  /\ Len(pendingCalls) < MaxCalls
  /\ button' = ClickStarted(button)
  /\ pendingCalls' = Append(pendingCalls, CallOf(button))
  /\ guarded' = TRUE
  /\ UiStep("handleClick", [call |-> CallOf(button)])
  /\ UNCHANGED <<chatVars, micVars>>

\* A call of the client resolves: handleClick ends without a state update.
CallResolved ==
  /\ \E i \in 1..Len(pendingCalls) :
       /\ pendingCalls' = Remove(pendingCalls, i)
       /\ guarded' = (guarded /\ i # Len(pendingCalls))
       /\ UiStep("CallResolved", [call |-> pendingCalls[i]])
  /\ UNCHANGED <<button, chatVars, micVars>>

\* A call of the client rejects: the catch block of handleClick.
CallRejected ==
  /\ \E i \in 1..Len(pendingCalls) :
       /\ pendingCalls' = Remove(pendingCalls, i)
       /\ guarded' = (guarded /\ i # Len(pendingCalls))
       /\ UiStep("CallRejected", [call |-> pendingCalls[i]])
  /\ button' = [button EXCEPT !.isConnecting = FALSE]
  /\ UNCHANGED <<chatVars, micVars>>

ButtonConnected ==
  /\ button' = [internalConnected |-> TRUE, isConnecting |-> FALSE]
  /\ guarded' = FALSE
  /\ UiStep("ButtonConnected", NoInput)
  /\ UNCHANGED <<pendingCalls, chatVars, micVars>>

ButtonDisconnected ==
  /\ button' = [internalConnected |-> FALSE, isConnecting |-> FALSE]
  /\ guarded' = FALSE
  /\ UiStep("ButtonDisconnected", NoInput)
  /\ UNCHANGED <<pendingCalls, chatVars, micVars>>

ButtonInit ==
  /\ button = [internalConnected |-> FALSE, isConnecting |-> FALSE]
  /\ pendingCalls = <<>>
  /\ guarded = FALSE

ButtonNext ==
  \/ handleClick
  \/ CallResolved
  \/ CallRejected
  \/ ButtonConnected
  \/ ButtonDisconnected

UiInit == ChatInit /\ MicInit /\ ButtonInit

(***************************************************************************)
(* Specifications: the connection manager and the conversation tracker     *)
(* are separate hooks; each is checked with the other at rest.             *)
(***************************************************************************)
InitialStep ==
  last = [op |-> "Init", arg |-> "", timer |-> NoTimer, input |-> NoInput]

ConnRest ==
  /\ ConnInit
  /\ opts = DefaultOptions
  /\ transport = "disconnected"

\* The connection manager while its component stays mounted.
InitConn == ConnInit /\ ConvInit /\ UiInit /\ InitialStep
SpecConn == InitConn /\ [][ConnNext]_vars

\* The connection manager up to and after the unmount of its component.
InitConnLife ==
  ConnInit /\ opts = LowOptions /\ ConvInit /\ UiInit /\ InitialStep
NextConnLife == ConnNext \/ Unmount
SpecConnLife == InitConnLife /\ [][NextConnLife]_vars

\* The conversation tracker.
InitTracker == ConnRest /\ ConvInit /\ UiInit /\ InitialStep
SpecTracker == InitTracker /\ [][ConvNext]_vars

\* The message list of ChatProvider.
SpecChat == InitTracker /\ [][ChatNext]_vars

\* The two controls, MicControl and ConnectionButton.
ControlsNext == MicNext \/ ButtonNext
SpecControls == InitTracker /\ [][ControlsNext]_vars

(***************************************************************************)
(* Properties.                                                             *)
(***************************************************************************)

\* The transition table of the conversation phases.
TransitionTable(event) ==
  CASE event = "bot-started-speaking" -> BOT_SPEAKING
    [] event = "bot-stopped-speaking" -> IDLE
    [] event = "user-started-speaking" -> USER_SPEAKING
    [] event = "user-stopped-speaking" -> BOT_PROCESSING
    [] event = "none" -> IDLE

\* C1: the phase is the one the transition table assigns to the last
\* phase-changing event processed (idle when there was none), whatever came
\* before it, and every speaking event can be processed in every state.
C1_LastWriterWins ==
  /\ currentState = TransitionTable(lastPhaseEvent)
  /\ ENABLED BotStartedSpeaking /\ ENABLED BotStoppedSpeaking
  /\ ENABLED WindowBotStartedSpeaking /\ ENABLED WindowBotStoppedSpeaking
  /\ ENABLED UserStartedSpeaking /\ ENABLED UserStoppedSpeaking

\* C1 witness: the user started speaking while the bot was speaking and a
\* transcript had been logged; the phase followed the last event.
C1_Witness ==
  /\ last.op = "UserStartedSpeaking"
  /\ isBotSpeaking
  /\ currentState = USER_SPEAKING
  /\ Len(transcripts) > 0

\* C2 (as claimed): the Disconnected event that follows a disconnect() of
\* the user schedules no reconnect timer, does not increment
\* reconnectAttempts and does not set isReconnecting.
C2_UserDisconnectSchedulesNothing ==
  [][(last'.op = "DisconnectedEvent" /\ last'.arg = "user")
       => /\ timers' = timers
          /\ last'.timer = NoTimer
          /\ cs'.reconnectAttempts = cs.reconnectAttempts
          /\ (cs'.isReconnecting => cs.isReconnecting)]_vars

\* C3 (as claimed): after the unmount no reconnect timer fires (the
\* transport's connect() is not invoked), no listener runs and
\* connectionState is not updated.
C3_NothingAfterTeardown ==
  [][~mounted => /\ last'.op # "ReconnectTimer"
                 /\ timers' = timers
                 /\ cs' = cs]_vars

ExpectedDelay(o, n, jitter) ==
  ((o.reconnectDelay * jitter * Pow(2, MaxExponent)) \div Pow(2, n))
    * Pow(3, n)

\* C5: the delay of the timer for the upcoming attempt n (1-based, the new
\* value of reconnectAttempts) is min(reconnectDelay * 1.5^n * jitter,
\* maxReconnectDelay) for a jitter in [0.8, 1.2]; it never exceeds
\* maxReconnectDelay, and with the defaults attempt 3 waits 2700..4050 ms.
C5_DelayFormula ==
  last.timer # NoTimer =>
    LET n == last.timer.attempt
        jitter == 800 + 4 * last.timer.random
        delay == last.timer.delay
        cap == opts.maxReconnectDelay * DelayUnit
    IN /\ n >= 1
       /\ n = cs.reconnectAttempts
       /\ jitter >= 800 /\ jitter <= 1200
       /\ delay = Min(ExpectedDelay(opts, n, jitter), cap)
       /\ delay <= cap
       /\ (opts = DefaultOptions /\ n = 3)
            => (delay >= 2700 * DelayUnit /\ delay <= 4050 * DelayUnit)

\* C5 witness: the timer of attempt 3 was started under the defaults.
C5_Witness ==
  /\ opts = DefaultOptions
  /\ last.op = "DisconnectedEvent"
  /\ last.timer.attempt = 3
  /\ last.timer.random = 99

\* C6 (as claimed): with the defaults the delay of attempt 1 is within
\* 800..1200 ms.
C6_FirstDelayAroundBase ==
  (opts = DefaultOptions /\ last.timer.attempt = 1)
    => /\ last.timer.delay >= 800 * DelayUnit
       /\ last.timer.delay <= 1200 * DelayUnit

\* C6 (amended): with the defaults the delay of attempt 1 is
\* 1000 * 1.5 * jitter, within 1200..1800 ms.
C6_FirstDelayOneBackoffStep ==
  (opts = DefaultOptions /\ last.timer.attempt = 1)
    => /\ last.timer.delay >= 1200 * DelayUnit
       /\ last.timer.delay <= 1800 * DelayUnit

\* C6 witness: the first attempt after a connection, with a middle jitter,
\* waits 1500 ms.
C6_Witness ==
  /\ opts = DefaultOptions
  /\ last.op = "DisconnectedEvent"
  /\ last.timer.attempt = 1
  /\ last.timer.delay = 1500 * DelayUnit
  /\ cs.reconnectAttempts = 1

\* A step in which the effect on [transportState] saw connected or ready.
ObservedConnected ==
  /\ last'.op = "Render"
  /\ cs'.transportState # cs.transportState
  /\ IsConnectedState(cs'.transportState)

\* A step in which the client.connect() awaited by connect() resolved.
UserConnectResolved == last'.op = "TransportReady" /\ last'.arg = "user"

\* C7 (as claimed): reconnectAttempts goes from non-zero to 0 only when the
\* transport state is seen to become connected or ready, and always then.
C7_ResetOnlyOnConnected ==
  [][/\ (cs.reconnectAttempts # 0 /\ cs'.reconnectAttempts = 0)
          => ObservedConnected
     /\ ObservedConnected => cs'.reconnectAttempts = 0]_vars

\* C7 (amended): reconnectAttempts goes from non-zero to 0 only when the
\* transport state is seen to become connected or ready or when the
\* client.connect() of connect() resolves, and always then.
C7_ResetOnConnectedOrConnect ==
  [][/\ (cs.reconnectAttempts # 0 /\ cs'.reconnectAttempts = 0)
          => (ObservedConnected \/ UserConnectResolved)
     /\ ObservedConnected => cs'.reconnectAttempts = 0
     /\ UserConnectResolved => cs'.reconnectAttempts = 0]_vars

\* C7 witness: connect() resolved and reset reconnectAttempts, which the
\* registered handler still holds as non-zero.
C7_Witness ==
  /\ last.op = "TransportReady"
  /\ last.arg = "user"
  /\ cs.reconnectAttempts = 0
  /\ reg.reconnectAttempts > 0
  /\ cs.transportState # "ready"

\* C8 (as claimed): isReconnecting implies that the mirrored transport
\* state is connecting and that a connection succeeded earlier.
C8_ReconnectingOnlyWhileConnecting ==
  cs.isReconnecting => (cs.transportState = "connecting" /\ everConnected)

\* C8 (amended): isReconnecting implies that a connection succeeded
\* earlier, and right after the transport state is mirrored it implies
\* that the mirrored state is connecting.
C8_ReconnectingAfterConnection ==
  /\ cs.isReconnecting => everConnected
  /\ (last.op = "Render" /\ last.arg # "" /\ cs.isReconnecting)
       => cs.transportState = "connecting"

\* C8 witness: the flag set by handleDisconnect was kept when the transport
\* was seen connecting.
C8_Witness ==
  /\ last.op = "Render"
  /\ last.arg = "connecting"
  /\ cs.isReconnecting
  /\ cs.reconnectAttempts > 0

\* C9 (as claimed): a Disconnected event marks isReconnecting, increments
\* reconnectAttempts by exactly 1 and starts one timer if and only if the
\* manager believes it is connected and reconnectAttempts is below the
\* maximum; otherwise no timer starts and reconnectAttempts is unchanged.
C9_ScheduleIffGuard ==
  [][last'.op = "DisconnectedEvent"
       => LET guard == /\ reg.isConnected
                       /\ reg.reconnectAttempts < opts.maxReconnectAttempts
              scheduled == /\ cs'.isReconnecting
                           /\ cs'.reconnectAttempts = cs.reconnectAttempts + 1
                           /\ timers' = timers + 1
          IN /\ scheduled <=> guard
             /\ ~guard => /\ timers' = timers
                          /\ cs'.reconnectAttempts = cs.reconnectAttempts]_vars

\* The client.connect() awaited by connect() has just rejected.
ConnectJustRejected ==
  \/ last.op = "connect" /\ last.arg = "rejected"
  \/ last.op \in {"TransportDrop", "TransportDisconnected"}
       /\ last.arg = "user"

\* C10 (as claimed): connect() sets isConnecting and clears lastError before
\* it calls the transport; when the call resolves reconnectAttempts is 0;
\* when it rejects lastError is the failure reason and, once the transport
\* state is mirrored, isConnected and isConnecting are those of that state.
C10_ConnectOutcome ==
  /\ (last.op = "connect" /\ last.arg = "pending")
       => (cs.isConnecting /\ cs.lastError = NoError)
  /\ (last.op = "TransportReady" /\ last.arg = "user")
       => cs.reconnectAttempts = 0
  /\ ConnectJustRejected
       => /\ cs.lastError = "net down"
          /\ cs.transportState = transport
               => /\ cs.isConnected = IsConnectedState(transport)
                  /\ cs.isConnecting = (transport = "connecting")

\* The client.disconnect() awaited by disconnect() resolves in this step.
UserDisconnectResolved ==
  \/ last'.op = "disconnect" /\ last'.arg = "resolved"
  \/ last'.op = "TransportDisconnected" /\ calls.disconnect

\* C11: when the client.disconnect() of disconnect() resolves, isConnected,
\* isConnecting and isReconnecting are false afterwards; when it rejects,
\* and while it is pending, connectionState and the timers are untouched.
C11_DisconnectBestEffort ==
  [][/\ UserDisconnectResolved
          => (~cs'.isConnected /\ ~cs'.isConnecting /\ ~cs'.isReconnecting
              /\ cs'.reconnectAttempts = cs.reconnectAttempts)
     /\ (last'.op = "DisconnectRejects"
           \/ (last'.op = "disconnect" /\ last'.arg = "pending"))
          => (cs' = cs /\ timers' = timers)]_vars

\* C11 witness: a pending disconnect() resolved while the mirrored transport
\* state was still ready, and cleared isConnected.
C11_Witness ==
  /\ last.op = "TransportDisconnected"
  /\ cs.transportState = "ready"
  /\ ~cs.isConnected
  /\ ~calls.disconnect

\* Descriptions of a transport failure.
FailureDescriptions ==
  {"net down", "Reconnection failed: net down", "Disconnect failed: net down"}

C13_NoConnectAfterFailedReconnect ==
  [][/\ ReconnectFails(last'.op, last'.arg)
          => /\ cs'.lastError = "Reconnection failed: net down"
             /\ timers' <= timers
     /\ sinceFailure => last'.op # "ReconnectTimer"]_vars

\* C14: clearError() sets lastError to none and leaves the other fields of
\* connectionState, the transport and the pending timers as they were.
C14_ClearErrorOnly ==
  [][last'.op = "clearError"
       => /\ cs'.lastError = NoError
          /\ cs'.isConnected = cs.isConnected
          /\ cs'.isConnecting = cs.isConnecting
          /\ cs'.isReconnecting = cs.isReconnecting
          /\ cs'.reconnectAttempts = cs.reconnectAttempts
          /\ cs'.transportState = cs.transportState
          /\ timers' = timers
          /\ transport' = transport
          /\ calls' = calls]_vars

\* C14 witness: clearError() ran while a reconnection was under way.
C14_Witness ==
  /\ last.op = "clearError"
  /\ cs.lastError = NoError
  /\ cs.isReconnecting
  /\ cs.reconnectAttempts > 0
  /\ timers > 0

\* C15: whatever the state before, after UserStartedSpeaking,
\* UserStoppedSpeaking, BotLlmStarted, BotLlmStopped, BotStartedSpeaking and
\* BotStoppedSpeaking processed in that order the phase is idle and
\* isBotProcessing, isUserSpeaking and isBotSpeaking are false.
C15_TurnEndsIdle ==
  scenario = Len(TurnScenario)
    => /\ currentState = IDLE
       /\ ~isBotProcessing
       /\ ~isUserSpeaking
       /\ ~isBotSpeaking

\* C15 witness: the six events of a turn were processed in a state that
\* had transcripts logged.
C15_Witness ==
  /\ scenario = Len(TurnScenario)
  /\ last.op = "BotStoppedSpeaking"
  /\ Len(transcripts) > 0
  /\ currentState = IDLE

\* C16 (as claimed): a call of handleTranscriptUpdate appends at most one
\* entry, and a second call with the same update right after the first
\* appends nothing.
C16_SecondCallNeverAppends ==
  [][last'.op = "handleTranscriptUpdate"
       => /\ Len(transcripts') \in {Len(transcripts), Len(transcripts) + 1}
          /\ (last.op = "handleTranscriptUpdate" /\ last'.input = last.input)
               => transcripts' = transcripts]_vars

\* The speaker an out-of-band update is logged under.
SpeakerOf(role) == IF role = "assistant" THEN "bot" ELSE "user"

\* The entry has the text and the speaker of the update u and a timestamp
\* less than 1000 ms away from it.
IsDuplicateOf(u, entry) ==
  /\ entry.text = u.content
  /\ entry.speaker = SpeakerOf(u.role)
  /\ entry.timestamp # NaN
  /\ ParseTimestamp(u.timestamp) # NaN
  /\ entry.timestamp - ParseTimestamp(u.timestamp) \in -999..999

\* C17: handleTranscriptUpdate leaves the log as it was if and only if some
\* entry of the log has the update's text and speaker and a timestamp less
\* than 1000 ms from the update's; otherwise it appends the update as the
\* last entry.
C17_DuplicateIffWithinTolerance ==
  [][last'.op = "handleTranscriptUpdate"
       => LET u == last'.input
              dup == \E i \in 1..Len(transcripts) :
                       IsDuplicateOf(u, transcripts[i])
          IN IF dup
               THEN transcripts' = transcripts
               ELSE transcripts' =
                      Append(transcripts,
                             [text |-> u.content,
                              speaker |-> SpeakerOf(u.role),
                              timestamp |-> ParseTimestamp(u.timestamp),
                              final |-> TRUE])]_vars

\* C17 witness: an update of the same text and speaker 999 ms after the
\* only entry of the log was discarded.
C17_Witness ==
  /\ last.op = "handleTranscriptUpdate"
  /\ last.input.timestamp = "1970-01-01T00:00:00.999Z"
  /\ Len(transcripts) = 1
  /\ transcripts[1].text = last.input.content
  /\ transcripts[1].speaker = SpeakerOf(last.input.role)
  /\ transcripts[1].timestamp = 0

\* C18: a UserTranscript or BotTranscript event appends one final entry at
\* the end of the log and sets the pointer of its speaker, and only that
\* pointer, if and only if its text is not empty and it is a BotTranscript
\* or a final UserTranscript; otherwise the log and both pointers stay as
\* they were.  The log is not searched for duplicates.
C18_TransportTranscriptCommit ==
  [][last'.op \in {"UserTranscript", "BotTranscript"}
       => LET data == last'.input.data
              isBot == last'.op = "BotTranscript"
              commits == data.text # "" /\ (isBot \/ data.final)
              entry == [text |-> data.text,
                        speaker |-> IF isBot THEN "bot" ELSE "user",
                        timestamp |-> last'.input.now,
                        final |-> TRUE]
          IN IF commits
               THEN /\ transcripts' = Append(transcripts, entry)
                    /\ IF isBot
                         THEN /\ lastBotTranscript' = data.text
                              /\ UNCHANGED lastUserTranscript
                         ELSE /\ lastUserTranscript' = data.text
                              /\ UNCHANGED lastBotTranscript
               ELSE UNCHANGED transcriptVars]_vars

\* C18 witness: the same bot transcript was committed twice.
C18_Witness ==
  /\ last.op = "BotTranscript"
  /\ Len(transcripts) = 2
  /\ transcripts[1] = transcripts[2]
  /\ lastBotTranscript = transcripts[2].text

\* C19 (as claimed): an entry appended by a transport transcript event or by
\* handleTranscriptUpdate has a text that is not empty, and an out-of-band
\* update with an empty content leaves the log and both pointers as they
\* were.
C19_CommittedTextNotEmpty ==
  [][last'.op \in {"UserTranscript", "BotTranscript", "handleTranscriptUpdate"}
       => /\ transcripts' # transcripts
               => transcripts'[Len(transcripts')].text # ""
          /\ (last'.op = "handleTranscriptUpdate" /\ last'.input.content = "")
               => UNCHANGED transcriptVars]_vars

\* C20 (as claimed): a handleTranscriptUpdate that leaves the log as it was
\* leaves both pointers as they were, and one that appends an entry appends
\* one final entry and sets the pointer of its speaker only.
C20_PointerOnlyOnAccept ==
  [][last'.op = "handleTranscriptUpdate"
       => LET u == last'.input
          IN IF transcripts' = transcripts
               THEN UNCHANGED <<lastUserTranscript, lastBotTranscript>>
               ELSE /\ Len(transcripts') = Len(transcripts) + 1
                    /\ transcripts'[Len(transcripts')].final
                    /\ IF SpeakerOf(u.role) = "bot"
                         THEN /\ lastBotTranscript' = u.content
                              /\ UNCHANGED lastUserTranscript
                         ELSE /\ lastUserTranscript' = u.content
                              /\ UNCHANGED lastBotTranscript]_vars

\* C21: across every step of the tracker the log stays as it was, gets one
\* entry appended at its end, or is emptied by clearTranscripts(); no step
\* removes, reorders or modifies an entry.
C21_LogAppendOnly ==
  [][\/ transcripts' = transcripts
     \/ /\ Len(transcripts') = Len(transcripts) + 1
        /\ SubSeq(transcripts', 1, Len(transcripts)) = transcripts
     \/ /\ last'.op = "clearTranscripts"
        /\ transcripts' = <<>>]_vars

\* C21 witness: a second, different entry was appended after the first.
C21_Witness ==
  /\ last.op = "handleTranscriptUpdate"
  /\ Len(transcripts) = 2
  /\ transcripts[2].text = last.input.content
  /\ transcripts[1].text # transcripts[2].text
  /\ transcripts[1].speaker = "bot"

\* C22: clearTranscripts() leaves the log empty and both pointers empty,
\* and does not change the phase or the three flags.
C22_ClearTranscripts ==
  [][last'.op = "clearTranscripts"
       => /\ transcripts' = <<>>
          /\ lastUserTranscript' = NullText
          /\ lastBotTranscript' = NullText
          /\ UNCHANGED <<currentState, isBotSpeaking, isUserSpeaking,
                         isBotProcessing>>]_vars

\* C22 witness: clearTranscripts() ran while the bot was speaking and
\* being processed.
C22_Witness ==
  /\ last.op = "clearTranscripts"
  /\ transcripts = <<>>
  /\ lastUserTranscript = NullText
  /\ currentState = BOT_SPEAKING
  /\ isBotSpeaking
  /\ isBotProcessing

\* C23: addTranscript(entry) appends the entry as it is at the end of the
\* log, whatever the log holds and whatever the entry's text and finality,
\* sets the pointer of the entry's speaker to its text, and leaves the other
\* pointer, the phase and the flags as they were.
C23_AddTranscript ==
  [][last'.op = "addTranscript"
       => LET entry == last'.input
          IN /\ transcripts' = Append(transcripts, entry)
             /\ IF entry.speaker = "user"
                  THEN /\ lastUserTranscript' = entry.text
                       /\ UNCHANGED lastBotTranscript
                  ELSE /\ lastBotTranscript' = entry.text
                       /\ UNCHANGED lastUserTranscript
             /\ UNCHANGED <<currentState, isBotSpeaking, isUserSpeaking,
                            isBotProcessing>>]_vars

\* C23 witness: an entry with an empty text that is not final was added
\* twice.
C23_Witness ==
  /\ last.op = "addTranscript"
  /\ last.input.text = ""
  /\ ~last.input.final
  /\ Len(transcripts) = 2
  /\ transcripts[1] = last.input
  /\ transcripts[2] = last.input
  /\ lastUserTranscript = ""

\* C24: in every state the window notification of bot-started-speaking
\* (bot-stopped-speaking) and the transport event BotStartedSpeaking
\* (BotStoppedSpeaking) give the same next phase and flags, a function of
\* the event and the state only, and leave the rest of the tracker alone.
C24_ChannelsEquivalent ==
  [][/\ EventOf(last'.op) = "BotStartedSpeaking"
          => /\ currentState' = BOT_SPEAKING
             /\ isBotSpeaking'
             /\ UNCHANGED <<isUserSpeaking, isBotProcessing, transcripts,
                            lastUserTranscript, lastBotTranscript>>
     /\ EventOf(last'.op) = "BotStoppedSpeaking"
          => /\ currentState' = IDLE
             /\ ~isBotSpeaking'
             /\ UNCHANGED <<isUserSpeaking, isBotProcessing, transcripts,
                            lastUserTranscript, lastBotTranscript>>]_vars

\* C24 witness: the window channel stopped what the transport channel had
\* started, while the user was speaking.
C24_Witness ==
  /\ last.op = "WindowBotStoppedSpeaking"
  /\ lastPhaseEvent = "bot-stopped-speaking"
  /\ currentState = IDLE
  /\ ~isBotSpeaking
  /\ isUserSpeaking

\* ---- Invariants of the tracker ----

\* The text of the last entry of the log with this speaker; null when the
\* log has none.
LastTextOf(speaker) ==
  LET entries == {i \in 1..Len(transcripts) : transcripts[i].speaker = speaker}
  IN IF entries = {} THEN NullText
     ELSE transcripts[CHOOSE i \in entries : \A j \in entries : j <= i].text

\* C34 (as claimed): in every reachable state lastUserTranscript is the text
\* of the last entry of the log with speaker user and lastBotTranscript the
\* text of the last entry with speaker bot, each null when there is none.
C34_PointersFollowLog ==
  /\ lastUserTranscript = LastTextOf("user")
  /\ lastBotTranscript = LastTextOf("bot")

\* C35: in every reachable state the phase bot_speaking implies
\* isBotSpeaking, and the phase user_speaking implies isUserSpeaking.
C35_PhaseImpliesSpeakingFlag ==
  /\ currentState = BOT_SPEAKING => isBotSpeaking
  /\ currentState = USER_SPEAKING => isUserSpeaking

\* C35 witness: the user started speaking while the bot was speaking; both
\* flags are set and the phase is user_speaking.
C35_Witness ==
  /\ last.op = "UserStartedSpeaking"
  /\ currentState = USER_SPEAKING
  /\ isUserSpeaking
  /\ isBotSpeaking

\* C36 (as claimed): in every reachable state the phase bot_processing
\* implies isBotProcessing.
C36_PhaseImpliesProcessingFlag ==
  currentState = BOT_PROCESSING => isBotProcessing

\* C36 (amended): the phase bot_processing implies isBotProcessing unless an
\* llm-stopped event was processed since the phase became bot_processing: a
\* state with that phase and the flag cleared is reached by BotLlmStopped,
\* or from a state that had that phase and the flag cleared already.
C36_ProcessingFlagUntilLlmStopped ==
  [][(currentState' = BOT_PROCESSING /\ ~isBotProcessing')
       => \/ last'.op = "BotLlmStopped"
          \/ currentState = BOT_PROCESSING /\ ~isBotProcessing]_vars

\* C36 witness: llm-stopped was processed in the phase bot_processing and
\* cleared the flag.
C36_Witness ==
  /\ last.op = "BotLlmStopped"
  /\ currentState = BOT_PROCESSING
  /\ ~isBotProcessing

TranscriptSteps ==
  {"UserTranscript", "BotTranscript", "clearTranscripts", "addTranscript",
   "handleTranscriptUpdate"}

\* The phase and the flags an event sets, and the flags it leaves, as the
\* transition table lists them.
TableEffect(event) ==
  CASE event = "BotStartedSpeaking" ->
         /\ currentState' = BOT_SPEAKING /\ isBotSpeaking'
         /\ UNCHANGED <<isUserSpeaking, isBotProcessing>>
    [] event = "BotStoppedSpeaking" ->
         /\ currentState' = IDLE /\ ~isBotSpeaking'
         /\ UNCHANGED <<isUserSpeaking, isBotProcessing>>
    [] event = "UserStartedSpeaking" ->
         /\ currentState' = USER_SPEAKING /\ isUserSpeaking'
         /\ UNCHANGED <<isBotSpeaking, isBotProcessing>>
    [] event = "UserStoppedSpeaking" ->
         /\ currentState' = BOT_PROCESSING /\ ~isUserSpeaking'
         /\ isBotProcessing'
         /\ UNCHANGED isBotSpeaking
    [] event = "BotLlmStarted" ->
         /\ isBotProcessing'
         /\ UNCHANGED <<currentState, isBotSpeaking, isUserSpeaking>>
    [] event = "BotLlmStopped" ->
         /\ ~isBotProcessing'
         /\ UNCHANGED <<currentState, isBotSpeaking, isUserSpeaking>>

\* C37: a speaking or LLM event changes the phase and the flags the
\* transition table lists for it and nothing else of the tracker, never the
\* log or the pointers; a transcript event, an out-of-band update,
\* addTranscript and clearTranscripts change neither the phase nor a flag.
C37_HalvesIndependent ==
  [][/\ EventOf(last'.op) \in {TurnScenario[i] : i \in 1..Len(TurnScenario)}
          => /\ TableEffect(EventOf(last'.op))
             /\ UNCHANGED <<transcripts, lastUserTranscript,
                            lastBotTranscript>>
     /\ last'.op \in TranscriptSteps
          => UNCHANGED <<currentState, isBotSpeaking, isUserSpeaking,
                         isBotProcessing>>]_vars

\* C37 witness: llm-stopped was processed while the bot was speaking and
\* the log held an entry; an out-of-band update had set a pointer.
C37_Witness ==
  /\ last.op = "BotLlmStopped"
  /\ currentState = BOT_SPEAKING
  /\ Len(transcripts) > 0
  /\ lastUserTranscript # NullText

\* ---- The components ----

\* C25 (as claimed): in every reachable state of ChatProvider the messages
\* of the list have pairwise distinct ids, also when several addMessage
\* calls are made within one clock millisecond.
C25_DistinctIds ==
  \A i, j \in 1..Len(messages) :
     i # j => messages[i].id # messages[j].id

MicSteps == {"MicActivated", "MicDeactivated", "MicTick", "CallbacksChanged"}

\* C26 (as claimed): MicControl invokes onStart exactly once in the step in
\* which the active state goes from inactive to active, and in no other
\* step: not again while the microphone stays active.
C26_OnStartOncePerActivation ==
  [][last'.op \in MicSteps
       => last'.input.onStart = IF ~submitted /\ submitted' THEN 1 ELSE 0]_vars

\* C27 (as claimed): MicControl invokes onStop exactly once in the step in
\* which the active state goes from active to inactive, with the number of
\* ticks counted since the activation, and leaves the displayed time at 0;
\* it invokes onStop in no other step.
C27_OnStopOncePerDeactivation ==
  [][last'.op \in MicSteps
       => IF submitted /\ ~submitted'
            THEN last'.input.onStop = <<ticks>> /\ time' = 0
            ELSE last'.input.onStop = <<>>]_vars

\* C28 (as claimed): from the click that starts a connect() or disconnect()
\* call until that call has settled or a Connected or Disconnected event
\* has arrived, no click starts another call.
C28_NoClickWhileGuarded ==
  [][last'.op = "handleClick" => ~guarded]_vars

\* ---- Reconnection after a drop, and user calls while a timer is pending ----

\* C29 (as claimed): when the transport drops while the manager is connected
\* with attempts left, the Disconnected event of that drop schedules exactly
\* one reconnect timer and sets isReconnecting, whether or not the state
\* change to "disconnected" was rendered first; and while that timer is
\* pending, the render that mirrors "disconnected" leaves isReconnecting true.
C29_OneAttemptEitherOrder ==
  [][/\ (last'.op = "DisconnectedEvent" /\ last'.arg = "drop" /\ dropConnected)
          => /\ timers' = timers + 1
             /\ last'.timer # NoTimer
             /\ cs'.isReconnecting
     /\ (/\ last'.op = "Render" /\ last'.arg = "disconnected"
         /\ cs.isReconnecting /\ timers > 0)
          => cs'.isReconnecting]_vars

\* C30 (as claimed): a reconnect timer that was pending when the user called
\* connect() or disconnect() does not fire afterwards: while every pending
\* timer is such a timer, the transport's connect() is not invoked by a timer.
C30_StaleTimerNeverFires ==
  [][stalePending => last'.op # "ReconnectTimer"]_vars

\* ---- Invariants of the connection manager ----

C32_AttemptsCountTimers ==
  [][/\ cs'.reconnectAttempts \in 0..opts.maxReconnectAttempts
     /\ IF last'.timer # NoTimer
          THEN cs'.reconnectAttempts = cs.reconnectAttempts + 1
          ELSE cs'.reconnectAttempts \in {cs.reconnectAttempts, 0}]_vars

\* isConnected together with isConnecting or isReconnecting.
TwoPhases(state) ==
  state.isConnected /\ (state.isConnecting \/ state.isReconnecting)

====
